---- MODULE Spec2Model ----
(***************************************************************************)
(* xmem-core: the shared metadata region (header + records), its lock-free *)
(* alloc/free, the buffer pool built on it and the RAII buffer guards.     *)
(*                                                                         *)
(* Every atomic access of the source is one step of the thread that makes  *)
(* it.  u32 values are written in their two's-complement signed reading,   *)
(* so u32::MAX is -1 and a fetch_sub on 0 gives -1 (0xFFFFFFFF).            *)
(***************************************************************************)
EXTENDS Integers, Sequences, FiniteSets, TLC

\* ---- bounds of the model ------------------------------------------------
Capacity == 2
NumThreads == 2
MaxHandles == 2
MaxRef == 3
MaxNeg == 1
MaxLen == 2
MaxByte == 1
MaxTimeout == 1

\* ---- program constants --------------------------------------------------
EMPTY == -1
SizeArg == 16
MAGIC == 1481459021
VERSION == 2

Threads == 1..NumThreads
Slots == 0..(Capacity - 1)
Indices == 0..Capacity

\* A guard is meta_index, mode and the SharedMemory it holds (owner is
\* SharedMemory.owner); guards[g] is how many such guards exist.
GuardKinds == [meta_index : Slots, mode : {"ReadOnly", "ReadWrite"}, owner : BOOLEAN]

\* A BufferGuard of the Python binding is meta_index and mode (and the Arc of
\* its pool); wrappers[w] is how many exist with forgotten = false.
PyKinds == [meta_index : Slots, mode : {"ReadOnly", "ReadWrite"}]

VARIABLES
    next_id,        \* MetaRegionHeader.next_id
    allocated,      \* MetaRegionHeader.allocated
    free_head,      \* MetaRegionHeader.free_head
    ref_count,      \* BufferMeta.ref_count of every record
    next_free,      \* the free-list link of every record
    meta,           \* id, storage_type, device_id, size of every record
    regions,        \* slots whose data region "<pool>_buf_<i>" exists
    owner_unlinks,  \* whether dropping the creating mapping removes the name
    guards,         \* the BufferGuard objects that exist
    data,           \* the first MaxLen bytes of the data region of every slot
    pc, op, arg, loc,   \* per thread: position, running call, its index, locals
    live,           \* history: per slot, alloc() results not yet passed to free()
    last,           \* history: the call that returned last, with its result
    hist,           \* history: the calls returned so far, while they follow a scenario
    snap,           \* history: header and free list when the running call began, if it runs alone
    late,           \* history: per thread, the deadline had passed when its last attempt failed
    header,         \* MetaRegionHeader.magic, version, capacity, waiters
    meta_exists,    \* whether the name "<pool>_meta" exists
    pools,          \* per thread: MetaRegion.capacity of the region it created or opened
    indices,        \* per thread: the Vec<u32> of its preallocate_cpu
    wrappers        \* the Python BufferGuard objects that have not been forgotten

hdr == <<next_id, allocated, free_head>>
recs == <<ref_count, next_free, meta>>
tvars == <<pc, op, arg, loc>>
ghost == <<live, last, hist, snap, late>>
statics == <<header, meta_exists, pools, indices, wrappers>>
Others == <<regions, owner_unlinks, guards, data>>
vars == <<next_id, allocated, free_head, ref_count, next_free, meta, regions,
          owner_unlinks, guards, data, pc, op, arg, loc, live, last, hist, snap,
          late, header, meta_exists, pools, indices, wrappers>>

\* ---- u32 arithmetic -----------------------------------------------------
\* a >= b on u32 values in signed reading
UGe(a, b) ==
    IF (a >= 0) = (b >= 0) THEN a >= b ELSE a < 0

\* ---- records ------------------------------------------------------------
ZeroMeta == [id |-> 0, storage_type |-> 0, device_id |-> 0, size |-> 0]
NoLoc == [head |-> 0, next |-> 0, id |-> 0, old_head |-> 0, meta_index |-> 0,
          mode |-> "ReadOnly", todo |-> {}]
NoLast == [op |-> "none", idx |-> 0, ok |-> TRUE, val |-> 0, err |-> "none",
           msg |-> "none"]

NoSnap == <<0, 0, 0, << >>, << >> >>

\* byte strings of the model, and a zero-filled region
Bytes == 0..MaxByte
Zeros == [k \in 1..MaxLen |-> 0]

\* msg.contains("full"), over the messages the errors carry
ContainsFull(m) == m \in {"metadata region full"}

\* the free list as a sequence, read from free_head along next_free
RECURSIVE Chain(_, _)
Chain(h, fuel) ==
    IF h = EMPTY \/ fuel = 0 \/ h \notin Slots
    THEN << >>
    ELSE <<h>> \o Chain(next_free[h], fuel - 1)

FreeList == Chain(free_head, Capacity + 1)

\* ---- history of returned calls ------------------------------------------
Event(o, i, k, v) == <<o, i, k, v>>
Off == << Event("off", 0, FALSE, 0) >>

\* spec.md 8, end-to-end scenario 1 (the pool-level calls, in order)
Scenario1 ==
    << Event("acquire_cpu", 0, TRUE, 0),
       Event("set_ref_count", 0, TRUE, 2),
       Event("get", 0, TRUE, 0),
       Event("drop", 0, TRUE, 0),
       Event("drop", 0, TRUE, 0) >>

Scenarios == { Scenario1 \o << Event("try_release", 0, TRUE, b) >> : b \in 0..1 }

\* tests/integration_test.rs, test_ref_count_cross_process: the calls of the
\* child, its exit, and the calls of the parent with the values they return
CrossCalls ==
    << Event("acquire_cpu", 0, TRUE, 0),
       Event("set_ref_count", 0, TRUE, 2),
       Event("exit", 0, TRUE, 0),
       Event("open", 0, TRUE, Capacity) >>

CrossScenarios ==
    { CrossCalls \o << Event("ref_count", 0, TRUE, r), Event("add_ref", 0, TRUE, a) >> :
          r \in (0 - MaxNeg)..MaxRef, a \in (0 - MaxNeg)..(MaxRef + 1) }

IsPrefix(s, t) ==
    /\ Len(s) <= Len(t)
    /\ \A k \in 1..Len(s) : s[k] = t[k]

Observe(h, e) ==
    IF h # Off /\ \E s \in Scenarios \cup CrossScenarios : IsPrefix(Append(h, e), s)
    THEN Append(h, e)
    ELSE Off

\* ---- initial state: MetaRegion::create on a zero-filled region -----------
Init ==
    /\ next_id = 0
    /\ allocated = 0
    /\ free_head = EMPTY
    /\ ref_count = [i \in Slots |-> 0]
    /\ next_free = [i \in Slots |-> 0]
    /\ meta = [i \in Slots |-> ZeroMeta]
    /\ regions = {}
    /\ owner_unlinks \in BOOLEAN
    /\ guards = [g \in GuardKinds |-> 0]
    /\ pc = [t \in Threads |-> "idle"]
    /\ op = [t \in Threads |-> "none"]
    /\ arg = [t \in Threads |-> 0]
    /\ loc = [t \in Threads |-> NoLoc]
    /\ live = [i \in Slots |-> 0]
    /\ last = NoLast
    /\ hist = << >>
    /\ snap = NoSnap
    /\ data = [i \in Slots |-> Zeros]
    /\ late = [t \in Threads |-> FALSE]
    /\ header = [magic |-> MAGIC, version |-> VERSION, capacity |-> Capacity,
                waiters |-> 0]
    /\ meta_exists = TRUE
    /\ pools = [t \in Threads |-> Capacity]
    /\ indices = [t \in Threads |-> << >>]
    /\ wrappers = [w \in PyKinds |-> 0]

\* ---- control ------------------------------------------------------------
\* thread t starts call o on index i
Enter(t, o, i, p) ==
    /\ pc[t] = "idle"
    /\ pc' = [pc EXCEPT ![t] = p]
    /\ op' = [op EXCEPT ![t] = o]
    /\ arg' = [arg EXCEPT ![t] = i]
    /\ snap' = IF \A u \in Threads : pc[u] = "idle"
               THEN <<next_id, allocated, free_head, FreeList, ref_count>>
               ELSE NoSnap
    /\ late' = [late EXCEPT ![t] = FALSE]
    /\ UNCHANGED <<last, hist>>

Begin(t, o, i, p) == Enter(t, o, i, p) /\ UNCHANGED statics

\* thread t moves to position p with locals l
Move(t, p, l) ==
    /\ pc' = [pc EXCEPT ![t] = p]
    /\ loc' = [loc EXCEPT ![t] = l]
    /\ UNCHANGED <<op, arg, last, hist, snap, late>>

Goto(t, p, l) == Move(t, p, l) /\ UNCHANGED statics

\* the call of thread t returns
Leave(t, k, v, e, m) ==
    /\ pc' = [pc EXCEPT ![t] = "idle"]
    /\ op' = [op EXCEPT ![t] = "none"]
    /\ arg' = [arg EXCEPT ![t] = 0]
    /\ loc' = [loc EXCEPT ![t] = NoLoc]
    /\ last' = [op |-> op[t], idx |-> arg[t], ok |-> k, val |-> v, err |-> e,
                msg |-> m]
    /\ hist' = Observe(hist, Event(op[t], arg[t], k, v))
    /\ snap' = NoSnap
    /\ late' = [late EXCEPT ![t] = FALSE]

\* (the Vec of a preallocate_cpu that returns Err is dropped)
Return(t, k, v, e, m) ==
    /\ Leave(t, k, v, e, m)
    /\ indices' = IF op[t] = "preallocate_cpu" /\ ~k
                  THEN [indices EXCEPT ![t] = << >>]
                  ELSE indices
    /\ UNCHANGED <<header, meta_exists, pools, wrappers>>

\* a call that is one atomic step: begins and returns at once (a call that is
\* under way then no longer runs alone)
Atomic(t, o, i, k, v, e, m) ==
    /\ pc[t] = "idle"
    /\ last' = [op |-> o, idx |-> i, ok |-> k, val |-> v, err |-> e, msg |-> m]
    /\ hist' = Observe(hist, Event(o, i, k, v))
    /\ snap' = NoSnap
    /\ UNCHANGED <<tvars, late, statics>>

\* ---- MetaRegion::create / MetaRegion::open -------------------------------
\* a thread that holds no MetaRegion
NoPool == 0 - 1

\* a region that SharedMemory::create has just made is zero-filled
ZeroHeader == [magic |-> 0, version |-> 0, capacity |-> 0, waiters |-> 0]

\* the header fields that create assigns, each with a plain store
HeaderFields == {"magic", "version", "capacity", "next_id", "allocated",
                 "free_head", "waiters"}

\* MetaRegion::create(name, Capacity): SharedMemory::create(name, size)? fails
\* when the name exists
CallCreate(t) ==
    /\ pc[t] = "idle"
    /\ pools[t] = NoPool
    /\ IF meta_exists
       THEN /\ Atomic(t, "create", Capacity, FALSE, 0, "SharedMemory", "create failed")
            /\ UNCHANGED <<hdr, recs>>
       ELSE /\ Enter(t, "create", Capacity, "m_init")
            /\ loc' = [loc EXCEPT ![t] = [NoLoc EXCEPT !.todo = HeaderFields]]
            /\ meta_exists' = TRUE
            /\ header' = ZeroHeader
            /\ next_id' = 0
            /\ allocated' = 0
            /\ free_head' = 0
            /\ ref_count' = [i \in Slots |-> 0]
            /\ next_free' = [i \in Slots |-> 0]
            /\ meta' = [i \in Slots |-> ZeroMeta]
            /\ UNCHANGED <<pools, indices, wrappers>>
    /\ UNCHANGED <<Others, live>>

\* one of the stores of create. They are plain stores to memory that another
\* process may be reading, so they take effect in any order.
CreateStore(t) ==
    /\ pc[t] = "m_init"
    /\ \E f \in loc[t].todo :
         /\ Move(t, "m_init", [loc[t] EXCEPT !.todo = @ \ {f}])
         /\ header' = CASE f = "magic" -> [header EXCEPT !.magic = MAGIC]
                         [] f = "version" -> [header EXCEPT !.version = VERSION]
                         [] f = "capacity" -> [header EXCEPT !.capacity = arg[t]]
                         [] f = "waiters" -> [header EXCEPT !.waiters = 0]
                         [] OTHER -> header
         /\ next_id' = IF f = "next_id" THEN 0 ELSE next_id
         /\ allocated' = IF f = "allocated" THEN 0 ELSE allocated
         /\ free_head' = IF f = "free_head" THEN EMPTY ELSE free_head
    /\ UNCHANGED <<recs, Others, live, meta_exists, pools, indices, wrappers>>

\* Ok(Self { shm, capacity })
CreateDone(t) ==
    /\ pc[t] = "m_init"
    /\ loc[t].todo = {}
    /\ pools' = [pools EXCEPT ![t] = arg[t]]
    /\ Leave(t, TRUE, arg[t], "none", "none")
    /\ UNCHANGED <<hdr, recs, Others, live, header, meta_exists, indices,
                   wrappers>>

Create(t) ==
    \/ CreateStore(t)
    \/ CreateDone(t)

\* MetaRegion::open(name): SharedMemory::open(name)? fails when the name does
\* not exist
CallOpen(t) ==
    /\ pc[t] = "idle"
    /\ pools[t] = NoPool
    /\ IF meta_exists
       THEN /\ Begin(t, "open", 0, "o_magic")
            /\ UNCHANGED loc
       ELSE Atomic(t, "open", 0, FALSE, 0, "SharedMemory", "open failed")
    /\ UNCHANGED <<hdr, recs, Others, live>>

OpenMagic(t) ==
    /\ pc[t] = "o_magic"
    /\ IF header.magic # MAGIC
       THEN Return(t, FALSE, 0, "SharedMemory", "invalid magic number")
       ELSE Goto(t, "o_version", loc[t])
    /\ UNCHANGED <<hdr, recs, Others, live>>

\* variant: the version of the header is not looked at
OpenVersionAny(t) ==
    /\ pc[t] = "o_version"
    /\ Goto(t, "o_capacity", loc[t])
    /\ UNCHANGED <<hdr, recs, Others, live>>

OpenVersion(t) ==
    /\ pc[t] = "o_version"
    /\ IF header.version # VERSION
       THEN Return(t, FALSE, 0, "SharedMemory", "version mismatch")
       ELSE Goto(t, "o_capacity", loc[t])
    /\ UNCHANGED <<hdr, recs, Others, live>>

\* capacity = header.capacity; Ok(Self { shm, capacity })
OpenCapacity(t) ==
    /\ pc[t] = "o_capacity"
    /\ pools' = [pools EXCEPT ![t] = header.capacity]
    /\ Leave(t, TRUE, header.capacity, "none", "none")
    /\ UNCHANGED <<hdr, recs, Others, live, header, meta_exists, indices,
                   wrappers>>

Open(t) ==
    \/ OpenMagic(t)
    \/ OpenVersion(t)
    \/ OpenCapacity(t)

\* ---- MetaRegion::alloc ----------------------------------------------------

Dec(f, i) == [f EXCEPT ![i] = IF @ > 0 THEN @ - 1 ELSE 0]
Inc(f, i) == [f EXCEPT ![i] = @ + 1]

\* alloc returns Ok(i) to its caller: the test or client of the region, or
\* acquire_cpu, which goes on with the slot
AllocOk(t, i) ==
    IF op[t] = "alloc"
    THEN /\ Return(t, TRUE, i, "none", "none")
         /\ live' = Inc(live, i)
    ELSE /\ Goto(t, "c_create", [NoLoc EXCEPT !.meta_index = i])
         /\ live' = live

\* alloc returns Err to its caller; acquire_cpu passes it on with `?`, and
\* acquire_cpu_blocking goes to its deadline check on a "full" error
AllocErr(t, e, m) ==
    /\ live' = live
    /\ IF op[t] = "acquire_cpu_blocking" /\ ContainsFull(m)
       THEN /\ pc' = [pc EXCEPT ![t] = "b_check"]
            /\ loc' = [loc EXCEPT ![t] = NoLoc]
            /\ late' = [late EXCEPT ![t] = (arg[t] = 0)]
            /\ UNCHANGED <<op, arg, last, hist, snap, statics>>
       ELSE Return(t, FALSE, 0, e, m)

AllocLoadHead(t) ==
    /\ pc[t] = "a_load"
    /\ IF free_head = EMPTY
       THEN Goto(t, "a_bump", NoLoc)
       ELSE Goto(t, "a_next", [NoLoc EXCEPT !.head = free_head])
    /\ UNCHANGED <<hdr, recs, Others, live>>

AllocLoadNext(t) ==
    /\ pc[t] = "a_next"
    /\ IF UGe(loc[t].head, Capacity)
       THEN AllocErr(t, "BufferNotFound", "none")
       ELSE /\ Goto(t, "a_cas", [loc[t] EXCEPT !.next = next_free[loc[t].head]])
            /\ live' = live
    /\ UNCHANGED <<hdr, recs, Others>>

\* variant: a failed CAS is tried again with the head that was loaded before
AllocCasNoReload(t) ==
    /\ pc[t] = "a_cas"
    /\ \E spurious \in BOOLEAN :
         IF free_head = loc[t].head /\ ~spurious
         THEN /\ free_head' = loc[t].next
              /\ Goto(t, "a_inc", loc[t])
         ELSE /\ free_head' = free_head
              /\ Goto(t, "a_cas", loc[t])
    /\ UNCHANGED <<next_id, allocated, recs, Others, live>>

\* compare_exchange_weak(head, next): may also fail spuriously
AllocCas(t) ==
    /\ pc[t] = "a_cas"
    /\ \E spurious \in BOOLEAN :
         IF free_head = loc[t].head /\ ~spurious
         THEN /\ free_head' = loc[t].next
              /\ Goto(t, "a_inc", loc[t])
         ELSE /\ free_head' = free_head
              /\ Goto(t, "a_load", NoLoc)
    /\ UNCHANGED <<next_id, allocated, recs, Others, live>>

AllocPopped(t) ==
    /\ pc[t] = "a_inc"
    /\ allocated' = allocated + 1
    /\ AllocOk(t, loc[t].head)
    /\ UNCHANGED <<next_id, free_head, recs, Others>>

AllocBump(t) ==
    /\ pc[t] = "a_bump"
    /\ next_id' = next_id + 1
    /\ IF UGe(next_id, Capacity)
       THEN Goto(t, "a_undo", NoLoc)
       ELSE Goto(t, "a_incb", [NoLoc EXCEPT !.id = next_id])
    /\ UNCHANGED <<allocated, free_head, recs, Others, live>>

\* variant: the failed bump is not undone
AllocFullNoUndo(t) ==
    /\ pc[t] = "a_undo"
    /\ next_id' = next_id
    /\ AllocErr(t, "SharedMemory", "metadata region full")
    /\ UNCHANGED <<allocated, free_head, recs, Others>>

AllocFull(t) ==
    /\ pc[t] = "a_undo"
    /\ next_id' = next_id - 1
    /\ AllocErr(t, "SharedMemory", "metadata region full")
    /\ UNCHANGED <<allocated, free_head, recs, Others>>

AllocBumped(t) ==
    /\ pc[t] = "a_incb"
    /\ allocated' = allocated + 1
    /\ AllocOk(t, loc[t].id)
    /\ UNCHANGED <<next_id, free_head, recs, Others>>

Alloc(t) ==
    \/ AllocLoadHead(t)
    \/ AllocLoadNext(t)
    \/ AllocCas(t)
    \/ AllocPopped(t)
    \/ AllocBump(t)
    \/ AllocFull(t)
    \/ AllocBumped(t)

\* ---- MetaRegion::free -----------------------------------------------------
\* free returns Ok(()) to its caller; try_release then returns Ok(true)
FreeOk(t) ==
    Return(t, TRUE, IF op[t] = "try_release" THEN 1 ELSE 0, "none", "none")

FreeLoadHead(t) ==
    /\ pc[t] = "f_load"
    /\ Goto(t, "f_store", [loc[t] EXCEPT !.old_head = free_head])
    /\ UNCHANGED <<hdr, recs, Others, live>>

\* variant: the freed slot is not linked to the old head
FreeStoreNextNone(t) ==
    /\ pc[t] = "f_store"
    /\ next_free' = [next_free EXCEPT ![arg[t]] = EMPTY]
    /\ Goto(t, "f_cas", loc[t])
    /\ UNCHANGED <<hdr, ref_count, meta, Others, live>>

FreeStoreNext(t) ==
    /\ pc[t] = "f_store"
    /\ next_free' = [next_free EXCEPT ![arg[t]] = loc[t].old_head]
    /\ Goto(t, "f_cas", loc[t])
    /\ UNCHANGED <<hdr, ref_count, meta, Others, live>>

FreeCas(t) ==
    /\ pc[t] = "f_cas"
    /\ \E spurious \in BOOLEAN :
         IF free_head = loc[t].old_head /\ ~spurious
         THEN /\ free_head' = arg[t]
              /\ Goto(t, "f_dec", NoLoc)
         ELSE /\ free_head' = free_head
              /\ Goto(t, "f_load", NoLoc)
    /\ UNCHANGED <<next_id, allocated, recs, Others, live>>

\* variant: free leaves the counter as it is
FreeDoneNoDec(t) ==
    /\ pc[t] = "f_dec"
    /\ allocated' = allocated
    /\ FreeOk(t)
    /\ UNCHANGED <<next_id, free_head, recs, Others, live>>

FreeDone(t) ==
    /\ pc[t] = "f_dec"
    /\ allocated' = allocated - 1
    /\ FreeOk(t)
    /\ UNCHANGED <<next_id, free_head, recs, Others, live>>

Free(t) ==
    \/ FreeLoadHead(t)
    \/ FreeStoreNext(t)
    \/ FreeCas(t)
    \/ FreeDone(t)

\* ---- clients of the region: alloc() and free(i) called directly ----------
\* (the model stops issuing allocations once more indices are held than exist)
RECURSIVE SumGuards(_)
SumGuards(S) ==
    IF S = {} THEN 0
    ELSE LET g == CHOOSE x \in S : TRUE IN guards[g] + SumGuards(S \ {g})

RECURSIVE SumTo(_, _)
SumTo(f, n) == IF n < 0 THEN 0 ELSE f[n] + SumTo(f, n - 1)

Held == SumTo(live, Capacity - 1)

CallAlloc(t) ==
    /\ Held <= Capacity
    /\ Begin(t, "alloc", 0, "a_load")
    /\ UNCHANGED <<hdr, recs, Others, loc, live>>

\* free(index): the bounds check comes first
CallFree(t, i) ==
    /\ pc[t] = "idle"
    /\ IF UGe(i, Capacity)
       THEN /\ Atomic(t, "free", i, FALSE, i, "BufferNotFound", "none")
            /\ live' = live
       ELSE /\ Begin(t, "free", i, "f_load")
            /\ live' = Dec(live, i)
            /\ UNCHANGED loc
    /\ UNCHANGED <<hdr, recs, Others>>

\* region clients that free only an index they hold
NextRegion ==
    \E t \in Threads :
        \/ CallAlloc(t)
        \/ \E i \in Slots : live[i] >= 1 /\ CallFree(t, i)
        \/ Alloc(t)
        \/ Free(t)

InitRegion == Init /\ owner_unlinks = FALSE

SpecRegion == InitRegion /\ [][NextRegion]_vars

\* the same clients, one call at a time
Quiet(t) == \A u \in Threads \ {t} : pc[u] = "idle"

NextRegionSeq ==
    \E t \in Threads :
        /\ Quiet(t)
        /\ \/ CallAlloc(t)
           \/ \E i \in Slots : live[i] >= 1 /\ CallFree(t, i)
           \/ Alloc(t)
           \/ Free(t)

SpecRegionSeq == InitRegion /\ [][NextRegionSeq]_vars

\* ---- BufferGuard ----------------------------------------------------------
NumGuards == SumGuards(GuardKinds)
Making == {t \in Threads :
              op[t] \in {"acquire_cpu", "acquire_cpu_blocking", "get", "get_mut"}}
Room == NumGuards + Cardinality(Making) < MaxHandles

\* BufferGuard::new(data, meta_index, mode, ref_count_ptr): data is Some and the
\* guard owns its release
NewGuard(i, m, o) ==
    guards' = [guards EXCEPT ![[meta_index |-> i, mode |-> m, owner |-> o]] = @ + 1]

\* the guard's SharedMemory is dropped: the mapping goes, and the name goes
\* with it when the creating mapping removes it
DropData(g) ==
    regions' = IF g.owner /\ owner_unlinks
               THEN regions \ {g.meta_index}
               ELSE regions

\* variant: release takes two references
GuardReleaseTwice(g) ==
    ref_count' = [ref_count EXCEPT ![g.meta_index] = @ - 2]

\* BufferGuard::release: ref_count.fetch_sub(1)
GuardRelease(g) ==
    ref_count' = [ref_count EXCEPT ![g.meta_index] = @ - 1]

\* variant: the drop that takes ref_count to 0 also pushes the slot
DropAndRecycle(t, g) ==
    /\ guards[g] > 0
    /\ Atomic(t, "drop", g.meta_index, TRUE, 0, "none", "none")
    /\ GuardRelease(g)
    /\ DropData(g)
    /\ guards' = [guards EXCEPT ![g] = @ - 1]
    /\ IF ref_count[g.meta_index] = 1
       THEN /\ free_head' = g.meta_index
            /\ next_free' = [next_free EXCEPT ![g.meta_index] = free_head]
            /\ allocated' = allocated - 1
            /\ UNCHANGED next_id
       ELSE UNCHANGED <<hdr, next_free>>
    /\ UNCHANGED <<meta, owner_unlinks, data, live>>

\* drop(guard): should_release and data.is_some() hold for every guard that
\* has not been forgotten
Drop(t, g) ==
    /\ guards[g] > 0
    /\ Atomic(t, "drop", g.meta_index, TRUE, 0, "none", "none")
    /\ GuardRelease(g)
    /\ DropData(g)
    /\ guards' = [guards EXCEPT ![g] = @ - 1]
    /\ UNCHANGED <<hdr, next_free, meta, owner_unlinks, data, live>>

\* variant: a forgotten guard still releases
ForgetReleasing(t, g) ==
    /\ guards[g] > 0
    /\ Atomic(t, "forget", g.meta_index, TRUE, 0, "none", "none")
    /\ GuardRelease(g)
    /\ DropData(g)
    /\ guards' = [guards EXCEPT ![g] = @ - 1]
    /\ UNCHANGED <<hdr, next_free, meta, owner_unlinks, data, live>>

\* guard.forget(): should_release = false, data = None, then the guard goes
Forget(t, g) ==
    /\ guards[g] > 0
    /\ Atomic(t, "forget", g.meta_index, TRUE, 0, "none", "none")
    /\ DropData(g)
    /\ guards' = [guards EXCEPT ![g] = @ - 1]
    /\ UNCHANGED <<hdr, recs, owner_unlinks, data, live>>

\* ---- BufferGuard::as_cpu_slice / as_cpu_slice_mut -------------------------
ByteStrings == UNION {[1..n -> Bytes] : n \in 0..MaxLen}

\* a byte string as the number the history records for it
RECURSIVE Encode(_)
Encode(b) ==
    IF b = << >> THEN 0 ELSE (b[1] + 1) + (MaxByte + 2) * Encode(Tail(b))

\* slice[..b.len()].copy_from_slice(b)
Overwrite(v, b) == b \o SubSeq(v, Len(b) + 1, Len(v))

\* variant: the view of a guard is not the region of its slot
ReadGuardStale(t, g) ==
    /\ guards[g] > 0
    /\ Atomic(t, "as_cpu_slice", g.meta_index, TRUE, Encode(Zeros), "none", g.mode)
    /\ UNCHANGED <<hdr, recs, Others, live>>

\* guard.as_cpu_slice(): the bytes of the region the guard maps; in the
\* history, msg holds the mode of the guard
ReadGuard(t, g) ==
    /\ guards[g] > 0
    /\ Atomic(t, "as_cpu_slice", g.meta_index, TRUE, Encode(data[g.meta_index]),
              "none", g.mode)
    /\ UNCHANGED <<hdr, recs, Others, live>>

\* variant: the mutable view does not look at the mode
WriteGuardUnchecked(t, g, b) ==
    /\ guards[g] > 0
    /\ Atomic(t, "as_cpu_slice_mut", g.meta_index, TRUE, Encode(b), "none", g.mode)
    /\ data' = [data EXCEPT ![g.meta_index] = Overwrite(@, b)]
    /\ UNCHANGED <<hdr, recs, regions, owner_unlinks, guards, live>>

\* guard.as_cpu_slice_mut()?[..b.len()].copy_from_slice(b)
WriteGuard(t, g, b) ==
    /\ guards[g] > 0
    /\ IF g.mode = "ReadOnly"
       THEN /\ Atomic(t, "as_cpu_slice_mut", g.meta_index, FALSE, 0, "ReadOnly",
                      g.mode)
            /\ data' = data
       ELSE /\ Atomic(t, "as_cpu_slice_mut", g.meta_index, TRUE, Encode(b), "none",
                      g.mode)
            /\ data' = [data EXCEPT ![g.meta_index] = Overwrite(@, b)]
    /\ UNCHANGED <<hdr, recs, regions, owner_unlinks, guards, live>>

\* ---- BufferPool::acquire_cpu ---------------------------------------------
\* (the model stops acquiring once `allocated` exceeds the capacity)
CallAcquireCpu(t) ==
    /\ allocated <= Capacity
    /\ Room
    /\ Begin(t, "acquire_cpu", 0, "a_load")
    /\ UNCHANGED <<hdr, recs, Others, loc, live>>

\* variant: acquire_cpu_blocking takes a failed creation of the data region
\* as one more reason to wait
AcquireCreateRetry(t) ==
    /\ pc[t] = "c_create"
    /\ IF loc[t].meta_index \in regions
       THEN /\ IF op[t] = "acquire_cpu_blocking"
               THEN Goto(t, "b_check", NoLoc)
               ELSE Return(t, FALSE, loc[t].meta_index, "SharedMemory", "create failed")
            /\ UNCHANGED <<regions, data>>
       ELSE /\ Goto(t, "c_id", loc[t])
            /\ regions' = regions \cup {loc[t].meta_index}
            /\ data' = [data EXCEPT ![loc[t].meta_index] = Zeros]
    /\ UNCHANGED <<hdr, recs, owner_unlinks, guards, live>>

\* SharedMemory::create(shm_name, size)?: fails when the name exists; a new
\* region is zero-filled
AcquireCreate(t) ==
    /\ pc[t] = "c_create"
    /\ IF loc[t].meta_index \in regions
       THEN /\ Return(t, FALSE, loc[t].meta_index, "SharedMemory", "create failed")
            /\ UNCHANGED <<regions, data>>
       ELSE /\ Goto(t, "c_id", loc[t])
            /\ regions' = regions \cup {loc[t].meta_index}
            /\ data' = [data EXCEPT ![loc[t].meta_index] = Zeros]
    /\ UNCHANGED <<hdr, recs, owner_unlinks, guards, live>>

AcquireStoreId(t) ==
    /\ pc[t] = "c_id"
    /\ meta' = [meta EXCEPT ![loc[t].meta_index].id = loc[t].meta_index]
    /\ Goto(t, "c_rc", loc[t])
    /\ UNCHANGED <<hdr, ref_count, next_free, Others, live>>

\* variant: acquire_cpu counts its reference on top of the value it finds
AcquireStoreRefAdd(t) ==
    /\ pc[t] = "c_rc"
    /\ ref_count' = [ref_count EXCEPT ![loc[t].meta_index] = @ + 1]
    /\ Goto(t, "c_type", loc[t])
    /\ UNCHANGED <<hdr, next_free, meta, Others, live>>

AcquireStoreRef(t) ==
    /\ pc[t] = "c_rc"
    /\ ref_count' = [ref_count EXCEPT ![loc[t].meta_index] = 1]
    /\ Goto(t, "c_type", loc[t])
    /\ UNCHANGED <<hdr, next_free, meta, Others, live>>

AcquireStoreType(t) ==
    /\ pc[t] = "c_type"
    /\ meta' = [meta EXCEPT ![loc[t].meta_index].storage_type = 0]
    /\ Goto(t, "c_dev", loc[t])
    /\ UNCHANGED <<hdr, ref_count, next_free, Others, live>>

AcquireStoreDevice(t) ==
    /\ pc[t] = "c_dev"
    /\ meta' = [meta EXCEPT ![loc[t].meta_index].device_id = 0]
    /\ Goto(t, "c_size", loc[t])
    /\ UNCHANGED <<hdr, ref_count, next_free, Others, live>>

\* the last store, then Ok(BufferGuard::new(.., ReadWrite, ..))
AcquireStoreSize(t) ==
    /\ pc[t] = "c_size"
    /\ meta' = [meta EXCEPT ![loc[t].meta_index].size = SizeArg]
    /\ IF op[t] \in {"preallocate_cpu", "py_acquire_cpu"}
       THEN /\ Goto(t, IF op[t] = "preallocate_cpu" THEN "p_forget" ELSE "y_forget",
                    loc[t])
            /\ guards' = guards
       ELSE /\ NewGuard(loc[t].meta_index, "ReadWrite", TRUE)
            /\ Return(t, TRUE, loc[t].meta_index, "none", "none")
    /\ UNCHANGED <<hdr, ref_count, next_free, regions, owner_unlinks, data, live>>

\* ---- BufferPool::preallocate_cpu ------------------------------------------
\* arg is count; the guard that acquire_cpu returned is a local of the loop
CallPreallocateCpu(t, n) ==
    /\ allocated <= Capacity
    /\ Enter(t, "preallocate_cpu", n, "a_load")
    /\ indices' = [indices EXCEPT ![t] = << >>]
    /\ UNCHANGED <<header, meta_exists, pools, wrappers, hdr, recs, Others, loc,
                   live>>

\* buf.forget() (data = None drops the SharedMemory of the creating guard),
\* indices.push(meta_index), and the next turn of the loop or Ok(indices)
PreallocForget(t) ==
    /\ pc[t] = "p_forget"
    /\ regions' = IF owner_unlinks THEN regions \ {loc[t].meta_index} ELSE regions
    /\ indices' = [indices EXCEPT ![t] = Append(@, loc[t].meta_index)]
    /\ IF Len(indices[t]) + 1 = arg[t]
       THEN Leave(t, TRUE, arg[t], "none", "none")
       ELSE Move(t, "a_load", NoLoc)
    /\ UNCHANGED <<hdr, recs, owner_unlinks, guards, data, live, header,
                   meta_exists, pools, wrappers>>

\* ---- BufferPool::acquire_cpu_blocking ------------------------------------
\* arg is the time left to the deadline, in the 1 ms of the sleep
CallAcquireCpuBlocking(t, d) ==
    /\ allocated <= Capacity
    /\ Room
    /\ Begin(t, "acquire_cpu_blocking", d, "a_load")
    /\ UNCHANGED <<hdr, recs, Others, loc, live>>

\* variant: the call gives up one sleep before the deadline
BlockCheckEarly(t) ==
    /\ pc[t] = "b_check"
    /\ IF arg[t] <= 1
       THEN Return(t, FALSE, 0, "Timeout", "none")
       ELSE Goto(t, "b_sleep", NoLoc)
    /\ UNCHANGED <<hdr, recs, Others, live>>

\* start.elapsed() >= timeout after a "full" error
BlockCheck(t) ==
    /\ pc[t] = "b_check"
    /\ IF arg[t] = 0
       THEN Return(t, FALSE, 0, "Timeout", "none")
       ELSE Goto(t, "b_sleep", NoLoc)
    /\ UNCHANGED <<hdr, recs, Others, live>>

\* thread::sleep(1 ms), then the next turn of the loop calls acquire_cpu
BlockSleep(t) ==
    /\ pc[t] = "b_sleep"
    /\ pc' = [pc EXCEPT ![t] = "a_load"]
    /\ loc' = [loc EXCEPT ![t] = NoLoc]
    /\ arg' = [arg EXCEPT ![t] = IF @ > 0 THEN @ - 1 ELSE 0]
    /\ UNCHANGED <<op, last, hist, snap, late, hdr, recs, Others, live, statics>>

\* time passes while the call of thread t runs
Tick(t) ==
    /\ op[t] = "acquire_cpu_blocking"
    /\ arg[t] > 0
    /\ arg' = [arg EXCEPT ![t] = @ - 1]
    /\ UNCHANGED <<pc, op, loc, last, hist, snap, late, hdr, recs, Others, live,
                   statics>>

Block(t) ==
    \/ BlockCheck(t)
    \/ BlockSleep(t)

AcquireCpu(t) ==
    \/ AcquireCreate(t)
    \/ AcquireStoreId(t)
    \/ AcquireStoreRef(t)
    \/ AcquireStoreType(t)
    \/ AcquireStoreDevice(t)
    \/ AcquireStoreSize(t)

\* ---- BufferPool::get / get_mut (get_with_mode) ---------------------------
ModeOf(o) == IF o = "get_mut" THEN "ReadWrite" ELSE "ReadOnly"

\* the getters of the Python BufferGuard that go through BufferPool::get or
\* get_mut (cuda_ptr and cuda_ptr_mut, built with the cuda feature, have the
\* shape of cpu_ptr and cpu_ptr_mut)
PyAccessors == {"py_cpu_ptr", "py_cpu_ptr_mut", "py_size"}

\* meta_region.get(meta_index)? comes first
CallGet(t, o, i) ==
    /\ pc[t] = "idle"
    /\ IF UGe(i, Capacity)
       THEN Atomic(t, o, i, FALSE, i, "BufferNotFound", "none")
       ELSE /\ ref_count[i] < MaxRef
            /\ Room
            /\ Begin(t, o, i, "g_inc")
            /\ UNCHANGED loc
    /\ UNCHANGED <<hdr, recs, Others, live>>

\* variant: get takes two references
GetAddRefTwice(t) ==
    /\ pc[t] = "g_inc"
    /\ ref_count' = [ref_count EXCEPT ![arg[t]] = @ + 2]
    /\ Goto(t, "g_type", loc[t])
    /\ UNCHANGED <<hdr, next_free, meta, Others, live>>

\* variant: get takes no reference
GetAddRefNone(t) ==
    /\ pc[t] = "g_inc"
    /\ Goto(t, "g_type", loc[t])
    /\ UNCHANGED <<hdr, recs, Others, live>>

GetAddRef(t) ==
    /\ pc[t] = "g_inc"
    /\ ref_count' = [ref_count EXCEPT ![arg[t]] = @ + 1]
    /\ Goto(t, "g_type", loc[t])
    /\ UNCHANGED <<hdr, next_free, meta, Others, live>>

\* StorageType::from_u8(storage_type)
GetStorageType(t) ==
    /\ pc[t] = "g_type"
    /\ IF meta[arg[t]].storage_type = 0
       THEN Goto(t, "g_open", loc[t])
       ELSE Return(t, FALSE, arg[t], "SharedMemory", "invalid storage type")
    /\ UNCHANGED <<hdr, recs, Others, live>>

\* SharedMemory::open(shm_name)?, then Ok(BufferGuard::new(.., mode, ..)); an
\* accessor of the Python binding takes its value from the guard and forgets
\* the guard before it returns
GetOpen(t) ==
    /\ pc[t] = "g_open"
    /\ IF arg[t] \in regions
       THEN /\ IF op[t] \in PyAccessors
               THEN guards' = guards
               ELSE NewGuard(arg[t], ModeOf(op[t]), FALSE)
            /\ Return(t, TRUE, 0, "none", "none")
       ELSE /\ guards' = guards
            /\ Return(t, FALSE, arg[t], "SharedMemory", "open failed")
    /\ UNCHANGED <<hdr, recs, regions, owner_unlinks, data, live>>

Get(t) ==
    \/ GetAddRef(t)
    \/ GetStorageType(t)
    \/ GetOpen(t)

\* ---- BufferPool: direct reference-count calls ----------------------------
\* variant: the index is not checked against the capacity
SetRefCountUnchecked(t, i, n) ==
    /\ Atomic(t, "set_ref_count", i, TRUE, n, "none", "none")
    /\ ref_count' = [j \in Slots |-> IF j = i THEN n ELSE ref_count[j]]
    /\ UNCHANGED <<hdr, next_free, meta, Others, live>>

SetRefCount(t, i, n) ==
    /\ IF UGe(i, Capacity)
       THEN /\ Atomic(t, "set_ref_count", i, FALSE, i, "BufferNotFound", "none")
            /\ ref_count' = ref_count
       ELSE /\ Atomic(t, "set_ref_count", i, TRUE, n, "none", "none")
            /\ ref_count' = [ref_count EXCEPT ![i] = n]
    /\ UNCHANGED <<hdr, next_free, meta, Others, live>>

AddRef(t, i) ==
    /\ IF UGe(i, Capacity)
       THEN /\ Atomic(t, "add_ref", i, FALSE, i, "BufferNotFound", "none")
            /\ ref_count' = ref_count
       ELSE /\ ref_count[i] < MaxRef
            /\ Atomic(t, "add_ref", i, TRUE, ref_count[i] + 1, "none", "none")
            /\ ref_count' = [ref_count EXCEPT ![i] = @ + 1]
    /\ UNCHANGED <<hdr, next_free, meta, Others, live>>

\* variant: release returns the new count and stores nothing
ReleaseNoStore(t, i) ==
    /\ IF UGe(i, Capacity)
       THEN Atomic(t, "release", i, FALSE, i, "BufferNotFound", "none")
       ELSE Atomic(t, "release", i, TRUE, ref_count[i] - 1, "none", "none")
    /\ UNCHANGED <<hdr, recs, Others, live>>

\* variant: release loads the count and stores count - 1 in a second step
ReleaseSplit(t, i) ==
    \/ /\ ~UGe(i, Capacity)
       /\ ref_count[i] > 0 - MaxNeg
       /\ Begin(t, "release", i, "r_store")
       /\ loc' = [loc EXCEPT ![t] = [NoLoc EXCEPT !.id = ref_count[i]]]
       /\ UNCHANGED <<hdr, recs, Others, live>>
    \/ /\ pc[t] = "r_store"
       /\ arg[t] = i
       /\ ref_count' = [ref_count EXCEPT ![i] = loc[t].id - 1]
       /\ Return(t, TRUE, loc[t].id - 1, "none", "none")
       /\ UNCHANGED <<hdr, next_free, meta, Others, live>>

Release(t, i) ==
    /\ IF UGe(i, Capacity)
       THEN /\ Atomic(t, "release", i, FALSE, i, "BufferNotFound", "none")
            /\ ref_count' = ref_count
       ELSE /\ ref_count[i] > 0 - MaxNeg
            /\ Atomic(t, "release", i, TRUE, ref_count[i] - 1, "none", "none")
            /\ ref_count' = [ref_count EXCEPT ![i] = @ - 1]
    /\ UNCHANGED <<hdr, next_free, meta, Others, live>>

RefCount(t, i) ==
    /\ IF UGe(i, Capacity)
       THEN Atomic(t, "ref_count", i, FALSE, i, "BufferNotFound", "none")
       ELSE Atomic(t, "ref_count", i, TRUE, ref_count[i], "none", "none")
    /\ UNCHANGED <<hdr, recs, Others, live>>

\* ---- BufferPool::release_buffer / try_release -----------------------------
CallReleaseBuffer(t, i) ==
    /\ pc[t] = "idle"
    /\ IF UGe(i, Capacity)
       THEN /\ Atomic(t, "release_buffer", i, FALSE, i, "BufferNotFound", "none")
            /\ live' = live
       ELSE /\ allocated > 0 - MaxNeg
            /\ Begin(t, "release_buffer", i, "f_load")
            /\ UNCHANGED <<loc, live>>
    /\ UNCHANGED <<hdr, recs, Others>>

CallTryRelease(t, i) ==
    /\ pc[t] = "idle"
    /\ IF UGe(i, Capacity)
       THEN Atomic(t, "try_release", i, FALSE, i, "BufferNotFound", "none")
       ELSE /\ allocated > 0 - MaxNeg
            /\ Begin(t, "try_release", i, "t_load")
            /\ UNCHANGED loc
    /\ UNCHANGED <<hdr, recs, Others, live>>

\* variant: a slot with ref_count 0 is not released
TryReleaseLoadStrict(t) ==
    /\ pc[t] = "t_load"
    /\ IF ref_count[arg[t]] < 0
       THEN Goto(t, "f_load", loc[t])
       ELSE Return(t, TRUE, 0, "none", "none")
    /\ UNCHANGED <<hdr, recs, Others, live>>

\* ref_count.load(); ref_count <= 0 goes on into release_buffer, else Ok(false)
TryReleaseLoad(t) ==
    /\ pc[t] = "t_load"
    /\ IF ref_count[arg[t]] <= 0
       THEN Goto(t, "f_load", loc[t])
       ELSE Return(t, TRUE, 0, "none", "none")
    /\ UNCHANGED <<hdr, recs, Others, live>>

\* ---- the pool and its guards ----------------------------------------------
Step(t) ==
    \/ Alloc(t)
    \/ Free(t)
    \/ AcquireCpu(t)
    \/ Get(t)
    \/ TryReleaseLoad(t)

\* acquire_cpu, get, try_release and guard drops by several threads
NextGuards ==
    \E t \in Threads :
        \/ CallAcquireCpu(t)
        \/ CallGet(t, "get", 0)
        \/ CallTryRelease(t, 0)
        \/ \E g \in GuardKinds : Drop(t, g)
        \/ Step(t)

SpecGuards == Init /\ [][NextGuards]_vars

\* the calls of the pool, one call at a time
NextSeq ==
    \E t \in Threads :
        /\ Quiet(t)
        /\ \/ CallAcquireCpu(t)
           \/ CallGet(t, "get", 0)
           \/ \E i \in Slots : CallTryRelease(t, i)
           \/ \E g \in GuardKinds : Drop(t, g)
           \/ SetRefCount(t, 0, 2)
           \/ Step(t)

SpecSeq == Init /\ [][NextSeq]_vars

\* alloc on a region nothing is freed in: the free list stays empty
AllocFresh(t) ==
    \/ AllocLoadHead(t)
    \/ AllocBump(t)
    \/ AllocFull(t)
    \/ AllocBumped(t)

\* acquire_cpu, get, add_ref, release and the end of guards, by several
\* threads, on a pool whose slots are not recycled
NextRefs ==
    \E t \in Threads :
        \/ CallAcquireCpu(t)
        \/ CallGet(t, "get", 0)
        \/ \E i \in Slots : AddRef(t, i)
        \/ \E i \in Slots : Release(t, i)
        \/ \E g \in GuardKinds : Drop(t, g)
        \/ \E g \in GuardKinds : Forget(t, g)
        \/ AllocFresh(t)
        \/ AcquireCpu(t)
        \/ Get(t)

SpecRefs == Init /\ [][NextRefs]_vars

\* indices at and above the capacity: the first one, and u32::MAX
OutOfRange == {Capacity, EMPTY}

\* buffers are acquired and dropped, and every call that takes an index is
\* made with an index outside the region, one call at a time
NextBounds ==
    \E t \in Threads :
        /\ Quiet(t)
        /\ \/ CallAcquireCpu(t)
           \/ \E g \in GuardKinds : Drop(t, g)
           \/ AllocFresh(t)
           \/ AcquireCpu(t)
           \/ \E i \in OutOfRange :
                 \/ CallGet(t, "get", i)
                 \/ CallGet(t, "get_mut", i)
                 \/ AddRef(t, i)
                 \/ Release(t, i)
                 \/ RefCount(t, i)
                 \/ SetRefCount(t, i, 2)
                 \/ CallTryRelease(t, i)
                 \/ CallReleaseBuffer(t, i)
                 \/ CallFree(t, i)

SpecBounds == Init /\ [][NextBounds]_vars

\* headers that a region found under the name may carry
Magics == {0, MAGIC, MAGIC + 1}
Versions == {0, VERSION - 1, VERSION, VERSION + 1}

\* the name does not exist yet, or a region with some header exists under it
InitOpen ==
    /\ next_id = 0
    /\ allocated = 0
    /\ free_head = EMPTY
    /\ ref_count = [i \in Slots |-> 0]
    /\ next_free = [i \in Slots |-> 0]
    /\ meta = [i \in Slots |-> ZeroMeta]
    /\ regions = {}
    /\ owner_unlinks = FALSE
    /\ guards = [g \in GuardKinds |-> 0]
    /\ pc = [t \in Threads |-> "idle"]
    /\ op = [t \in Threads |-> "none"]
    /\ arg = [t \in Threads |-> 0]
    /\ loc = [t \in Threads |-> NoLoc]
    /\ live = [i \in Slots |-> 0]
    /\ last = NoLast
    /\ hist = << >>
    /\ snap = NoSnap
    /\ data = [i \in Slots |-> Zeros]
    /\ late = [t \in Threads |-> FALSE]
    /\ meta_exists \in BOOLEAN
    /\ header \in IF meta_exists
                  THEN [magic : Magics, version : Versions, capacity : {0, Capacity},
                        waiters : {0}]
                  ELSE {ZeroHeader}
    /\ pools = [t \in Threads |-> NoPool]
    /\ indices = [t \in Threads |-> << >>]
    /\ wrappers = [w \in PyKinds |-> 0]

\* processes create and open the region of one name, and allocate through the
\* region they hold
NextOpen ==
    \E t \in Threads :
        \/ CallCreate(t)
        \/ Create(t)
        \/ CallOpen(t)
        \/ Open(t)
        \/ pools[t] = Capacity /\ CallAlloc(t)
        \/ Alloc(t)

SpecOpen == InitOpen /\ [][NextOpen]_vars

\* a slot that an alloc returned and that is not on the free list
InUse(i) == i < next_id /\ \A k \in 1..Len(FreeList) : FreeList[k] # i

\* buffers are preallocated, released and recycled, one call at a time; a
\* release is made on a positive count and a try_release on a slot in use
NextPrealloc ==
    \E t \in Threads :
        /\ Quiet(t)
        /\ \/ \E n \in 1..Capacity : CallPreallocateCpu(t, n)
           \/ \E i \in Slots : ref_count[i] > 0 /\ Release(t, i)
           \/ \E i \in Slots : InUse(i) /\ CallTryRelease(t, i)
           \/ Alloc(t)
           \/ Free(t)
           \/ AcquireCpu(t)
           \/ PreallocForget(t)
           \/ TryReleaseLoad(t)

SpecPrealloc == Init /\ [][NextPrealloc]_vars

\* ==== claims ==============================================================

\* the pool has no slot to hand out
Full == UGe(next_id, Capacity) /\ free_head = EMPTY

\* acquire_cpu and acquire_cpu_blocking on a pool nothing is released in
NextTimeout ==
    \E t \in Threads :
        \/ CallAcquireCpu(t)
        \/ \E d \in 0..MaxTimeout : CallAcquireCpuBlocking(t, d)
        \/ Tick(t)
        \/ \E g \in GuardKinds : Drop(t, g)
        \/ AllocFresh(t)
        \/ AcquireCpu(t)
        \/ Block(t)

\* every thread that is in a call goes on (fair scheduling)
FairTimeout == \A t \in Threads : WF_vars(AllocFresh(t) \/ AcquireCpu(t) \/ Block(t))

SpecTimeout == Init /\ [][NextTimeout]_vars /\ FairTimeout

\* an acquire_cpu_blocking call is in progress
Waiting == \E u \in Threads : op[u] = "acquire_cpu_blocking"

\* acquire_cpu_blocking on a full pool, while other threads drop guards and
\* call try_release; the pool is filled before, and only the waiting call
\* acquires during the wait
NextBlocking ==
    \E t \in Threads :
        \/ ~Full /\ ~Waiting /\ CallAcquireCpu(t)
        \/ Full /\ \E d \in 1..MaxTimeout : CallAcquireCpuBlocking(t, d)
        \/ Tick(t)
        \/ \E g \in GuardKinds : Drop(t, g)
        \/ CallTryRelease(t, 0)
        \/ Alloc(t)
        \/ Free(t)
        \/ AcquireCpu(t)
        \/ TryReleaseLoad(t)
        \/ Block(t)

FairBlocking ==
    \A t \in Threads :
        WF_vars(Alloc(t) \/ Free(t) \/ AcquireCpu(t) \/ TryReleaseLoad(t) \/ Block(t))

SpecBlocking == Init /\ [][NextBlocking]_vars /\ FairBlocking

\* buffers are acquired, opened, written and read, one call at a time, on a
\* pool whose slots are not recycled
NextData ==
    \E t \in Threads :
        /\ Quiet(t)
        /\ \/ CallAcquireCpu(t)
           \/ \E i \in Slots : CallGet(t, "get", i)
           \/ \E i \in Slots : CallGet(t, "get_mut", i)
           \/ \E g \in GuardKinds, b \in ByteStrings : WriteGuard(t, g, b)
           \/ \E g \in GuardKinds : ReadGuard(t, g)
           \/ \E g \in GuardKinds : Drop(t, g)
           \/ AllocFresh(t)
           \/ AcquireCpu(t)
           \/ Get(t)

SpecData == Init /\ [][NextData]_vars

Count(q, i) == Cardinality({k \in 1..Len(q) : q[k] = i})

\* calls that hold slot i between the header update and their return
Popping(i) ==
    Cardinality({t \in Threads :
        \/ pc[t] = "a_inc" /\ loc[t].head = i
        \/ pc[t] = "a_incb" /\ loc[t].id = i})

\* calls of free(i) that have not pushed i yet
Pushing(i) ==
    Cardinality({t \in Threads : pc[t] \in {"f_load", "f_store", "f_cas"} /\ arg[t] = i})

\* C1 (as stated): every index alloc returns is in [0, capacity), and no index
\* is returned by two successful allocs without a free of it in between, under
\* any interleaving of alloc and free where free is called on live indices only.
C1_UniqueAlloc ==
    /\ \A i \in Slots : live[i] <= 1
    /\ (last.op = "alloc" /\ last.ok) => last.val \in Slots

\* C2 (as stated): the free list is immune to ABA: every index below the bump
\* cursor is exactly one of live (or being handed out / handed back) or a
\* member of the free list exactly once.
C2_NoAba ==
    \A i \in Slots :
        i < next_id =>
            live[i] + Popping(i) + Pushing(i) + Count(FreeList, i) = 1

\* C3 (as stated): while a guard from acquire_cpu or get exists, the ref_count
\* of its slot is >= 1, under any interleaving of acquire_cpu, get, guard drop
\* and try_release.
C3_GuardKeepsRef ==
    \A g \in GuardKinds : guards[g] > 0 => ref_count[g.meta_index] >= 1

\* the running call o of some thread returns in this step
Returns(o) == \E t \in Threads : op[t] = o /\ pc[t] # "idle" /\ pc'[t] = "idle"

\* a guard is dropped in this step
Dropping ==
    /\ \E g \in GuardKinds : guards'[g] < guards[g]
    /\ ref_count' # ref_count

NoGuardOf(i) == \A g \in GuardKinds : g.meta_index = i => guards[g] = 0

\* C5 (as stated): when the pool is full and the only guard of a slot is
\* dropped, the acquire_cpu that comes next, with no try_release before it,
\* succeeds and returns the index of the dropped guard.
C5_DropRecycles ==
    [][ ( /\ Returns("acquire_cpu")
          /\ last.op = "drop"
          /\ NoGuardOf(last.idx)
          /\ snap[1] = Capacity
          /\ snap[3] = EMPTY )
        => (last'.ok /\ last'.val = last.idx) ]_vars

\* slot i is allocated: handed out by the bump cursor and not on the free list
IsAllocated(i) == i < next_id /\ Count(FreeList, i) = 0

\* C6: try_release(i), run on its own, returns true with slot i pushed on the
\* free list exactly when ref_count(i) <= 0; with ref_count(i) > 0 it returns
\* false and ref_count, free_head, allocated, next_id and the links are as
\* before the call, so that an allocated slot i stays allocated and the
\* acquire_cpu that comes next obtains another index.
C6_TryRelease ==
    [][ /\ Returns("try_release") =>
             /\ last'.ok
             /\ last'.val = (IF ref_count[last'.idx] <= 0 THEN 1 ELSE 0)
             /\ last'.val = 1 => free_head' = last'.idx
             /\ last'.val = 0 =>
                  /\ <<next_id', allocated', free_head'>> = <<snap[1], snap[2], snap[3]>>
                  /\ UNCHANGED <<ref_count, next_free>>
        /\ ( /\ Returns("acquire_cpu")
             /\ last.op = "try_release"
             /\ last.val = 0
             /\ last.idx < snap[1]
             /\ Count(snap[4], last.idx) = 0
             /\ last'.ok )
           => last'.val # last.idx ]_vars

C6_Witness ==
    /\ last.op = "try_release"
    /\ last.val = 0
    /\ ref_count[last.idx] > 0
    /\ IsAllocated(last.idx)

\* C7 (as stated): after acquire_cpu returned index 0, set_ref_count(0, 2),
\* a successful get(0) and the drop of both guards, try_release(0) returns true.
C7_ReleasedAfterDrops ==
    hist \in Scenarios => hist[Len(hist)] = Event("try_release", 0, TRUE, 1)

\* C7 (amended): after the same calls ref_count(0) is 1 (2 set, +1 by get,
\* -2 by the drops) and try_release(0) returns false.
C7_StillReferenced ==
    hist \in Scenarios =>
        /\ hist[Len(hist)] = Event("try_release", 0, TRUE, 0)
        /\ (\A t \in Threads : pc[t] = "idle") => ref_count[0] = 1

C7_Witness == hist \in Scenarios

\* C8 (as stated): after try_release(i) returned true, the acquire_cpu that
\* comes next succeeds and returns index i.
C8_RecycledReused ==
    [][ ( /\ Returns("acquire_cpu")
          /\ last.op = "try_release"
          /\ last.ok
          /\ last.val = 1 )
        => (last'.ok /\ last'.val = last.idx) ]_vars

\* C9: with one call at a time, free(i) puts i in front of the free list, an
\* alloc takes the front of the free list and bumps next_id only when the list
\* is empty; so the alloc that comes after free(i) returns i with next_id as
\* it was, and freed indices come back in reverse order of their frees.
C9_Lifo ==
    [][ /\ \A t \in Threads :
            /\ (pc[t] = "f_cas" /\ pc'[t] = "f_dec") =>
                  FreeList' = <<arg[t]>> \o FreeList
            /\ (pc[t] = "a_cas" /\ pc'[t] = "a_inc") =>
                  /\ FreeList # << >>
                  /\ loc[t].head = Head(FreeList)
                  /\ FreeList' = Tail(FreeList)
            /\ pc'[t] = "a_bump" => FreeList = << >>
        /\ (Returns("alloc") /\ last.op = "free" /\ last.ok) =>
              /\ last'.ok
              /\ last'.val = last.idx
              /\ next_id' = snap[1] ]_vars

C9_Witness ==
    /\ last.op = "alloc"
    /\ last.ok
    /\ last.val = 1
    /\ next_id = Capacity
    /\ FreeList = <<0>>

\* C10: an acquire_cpu that starts with next_id = capacity and an empty free
\* list, and runs on its own, returns a SharedMemory error whose message
\* contains "full", with next_id, allocated and free_head as at its start.
C10_FullKeepsHeader ==
    [][ ( /\ Returns("acquire_cpu")
          /\ snap[1] = Capacity
          /\ snap[3] = EMPTY )
        => /\ ~last'.ok
           /\ last'.err = "SharedMemory"
           /\ ContainsFull(last'.msg)
           /\ <<next_id', allocated', free_head'>> = <<snap[1], snap[2], snap[3]>> ]_vars

C10_Witness ==
    /\ last.op = "acquire_cpu"
    /\ ~last.ok
    /\ ContainsFull(last.msg)
    /\ next_id = Capacity
    /\ free_head = EMPTY

\* C11 (as stated): in every reachable state, also while alloc or free calls
\* of other threads are partway through, allocated <= capacity.
C11_AllocatedBounded == allocated <= Capacity

\* free calls that have been made and have not returned
Freeing == Cardinality({t \in Threads : op[t] = "free" /\ pc[t] # "idle"})

\* C12 (as stated): at every point in time allocated is the number of indices
\* returned by alloc and not yet passed to free.
C12_AllocatedIsLive == allocated = Cardinality({i \in Slots : live[i] >= 1})

\* C12 (amended): allocated is the number of allocations returned by alloc and
\* not yet passed to free, plus the number of free calls that have not
\* returned; the two are equal when no free call is in progress.
C12_AllocatedCounts == allocated = Held + Freeing

C12_Witness ==
    /\ Freeing >= 1
    /\ allocated = Held + 1
    /\ Held >= 1

AllIdle == \A t \in Threads : pc[t] = "idle"

\* guard g ends in this step, by the call o (drop or forget)
Ends(g, o) == guards'[g] < guards[g] /\ last'.op = o

C14_ForgetKeepsCount ==
    [][ /\ \A g \in GuardKinds :
            Ends(g, "forget") =>
               /\ guards' = [guards EXCEPT ![g] = @ - 1]
               /\ UNCHANGED <<hdr, recs>>
               /\ ( /\ AllIdle
                    /\ hist = << Event("acquire_cpu", 0, TRUE, 0) >>
                    /\ g.meta_index = 0 )
                  => ref_count'[0] = 1
        /\ \A i \in Slots :
            ref_count'[i] < ref_count[i] =>
               \/ \E g \in GuardKinds : g.meta_index = i /\ Ends(g, "drop")
               \/ last'.op = "release" /\ last'.idx = i /\ pc' = pc
               \/ \E t \in Threads : pc[t] = "c_rc" /\ pc'[t] # pc[t] ]_vars

C14_Witness ==
    /\ last.op = "forget"
    /\ ref_count[last.idx] = 1
    /\ NoGuardOf(last.idx)
    /\ AllIdle

\* the call o, a single atomic access, is made on record i in this step
Direct(o, i) ==
    /\ pc' = pc
    /\ guards' = guards
    /\ last'.op = o
    /\ last'.idx = i
    /\ (last' # last \/ ref_count'[i] # ref_count[i])

\* C15: add_ref(i) adds exactly 1 and returns old + 1, release(i) takes exactly
\* 1 and returns old - 1, whatever calls of other threads are under way on i
\* (no update is lost); so release(i) right after add_ref(i) leaves
\* ref_count(i) at its value before the pair.
C15_AddRefRelease ==
    [][ \A i \in Slots :
          /\ Direct("add_ref", i) =>
                /\ last'.ok
                /\ last'.val = ref_count[i] + 1
                /\ ref_count' = [ref_count EXCEPT ![i] = @ + 1]
          /\ Direct("release", i) =>
                /\ last'.ok
                /\ last'.val = ref_count[i] - 1
                /\ ref_count' = [ref_count EXCEPT ![i] = @ - 1]
                /\ (AllIdle /\ last.op = "add_ref" /\ last.idx = i /\ last.ok)
                     => ref_count'[i] = last.val - 1 ]_vars

C15_Witness ==
    /\ last.op = "release"
    /\ last.ok
    /\ \E t \in Threads : pc[t] \in {"g_type", "g_open"} /\ arg[t] = last.idx

\* thread t waits in acquire_cpu_blocking, its deadline has not passed, the
\* call that returned last is a try_release that released a slot, the slot is
\* on the free list and no other call is in progress
Released(t) ==
    /\ op[t] = "acquire_cpu_blocking"
    /\ arg[t] > 0
    /\ last.op = "try_release" /\ last.ok /\ last.val = 1
    /\ free_head # EMPTY
    /\ \A u \in Threads \ {t} : pc[u] = "idle"

\* C16 (as stated): if the pool is full when acquire_cpu_blocking starts and
\* another thread drops a guard and try_release releases its slot before the
\* deadline, then under fair scheduling the blocking call returns a guard.
C16_BlockingSucceeds ==
    (\E t \in Threads : Released(t))
        ~> (last.op = "acquire_cpu_blocking" /\ last.ok)

TimesOut(t) ==
    /\ op[t] = "acquire_cpu_blocking"
    /\ pc[t] # "idle"
    /\ pc'[t] = "idle"
    /\ last'.err = "Timeout"

\* C17 (as stated): acquire_cpu_blocking returns Timeout only after an
\* acquire attempt made at or after the deadline failed with "full": the
\* deadline had passed when the attempt before the Timeout failed.
C17_TimeoutAfterLateAttempt ==
    [][ \A t \in Threads : TimesOut(t) => late[t] ]_vars

\* C17 (amended): on a pool in which nothing is released, a blocking call
\* that fails returns Timeout, from the deadline check that follows an attempt
\* that failed with "full" and finds the deadline passed (the attempt may have
\* have failed before the deadline); and a blocking call that starts an
\* attempt on a full pool ends with Timeout.
C17_TimeoutAfterCheck ==
    /\ [][ \A t \in Threads :
             ( /\ op[t] = "acquire_cpu_blocking"
               /\ pc[t] # "idle"
               /\ pc'[t] = "idle"
               /\ ~last'.ok )
             => /\ last'.err = "Timeout"
                /\ pc[t] = "b_check"
                /\ arg[t] = 0
                /\ Full ]_vars
    /\ \A t \in Threads :
         (op[t] = "acquire_cpu_blocking" /\ pc[t] = "a_load" /\ Full)
            ~> (last.op = "acquire_cpu_blocking" /\ last.err = "Timeout")

C17_Witness ==
    /\ last.op = "acquire_cpu_blocking"
    /\ last.err = "Timeout"
    /\ Full

\* acquire_cpu returned index 0, set_ref_count(0, 2) and get(0) returned a guard
Shared3 == SubSeq(Scenario1, 1, 3)

\* C18: ref_count is one counter for all users of the pool: the fetch_add of
\* a get adds exactly 1 to the count of its index, whoever calls it; so when
\* one user has acquired index 0 and set its count to 2, the get(0) of
\* another returns with the count at 3.
C18_SharedCount ==
    [][ /\ \A t \in Threads :
            (pc[t] = "g_inc" /\ pc'[t] # "g_inc") =>
                ref_count' = [ref_count EXCEPT ![arg[t]] = @ + 1]
        /\ (hist' = Shared3 /\ hist # Shared3) => ref_count'[0] = 3 ]_vars

C18_Witness ==
    /\ hist = Shared3
    /\ ref_count[0] = 3
    /\ AllIdle


\* a view of a guard of slot i is taken in this step
Views(o, i) == last'.op = o /\ last'.idx = i /\ last' # last

\* C19: bytes b written through a read-write guard of slot i are the first
\* len(b) bytes of the region of slot i, the rest of the region and the other
\* regions keep their bytes; calls that open, drop or read guards change no
\* byte; and a read through any guard of slot i, whatever its mode and its
\* process, returns the bytes of the region of slot i. So a guard returned by
\* get(i) after the write reads b in its first len(b) bytes.
C19_WriteThenRead ==
    [][\A i \in Slots :
         /\ (Views("as_cpu_slice_mut", i) /\ last'.ok) =>
               \E b \in ByteStrings :
                   /\ last'.val = Encode(b)
                   /\ SubSeq(data'[i], 1, Len(b)) = b
                   /\ data' = [data EXCEPT ![i] = Overwrite(@, b)]
         /\ Views("as_cpu_slice", i) =>
               /\ last'.ok
               /\ last'.val = Encode(data[i])
               /\ \A b \in ByteStrings :
                      IsPrefix(b, data[i]) <=>
                          \E v \in ByteStrings :
                              last'.val = Encode(v) /\ IsPrefix(b, v)
         /\ data'[i] # data[i] =>
               \/ Views("as_cpu_slice_mut", i) /\ last'.ok
               \/ \E t \in Threads : pc[t] = "c_create" /\ loc[t].meta_index = i
      ]_vars

\* bytes were written through the creating guard, and a read-only guard from
\* get then read them
C19_Witness ==
    /\ last.op = "as_cpu_slice"
    /\ last.msg = "ReadOnly"
    /\ last.val = Encode(<<1, 0>>)
    /\ data[last.idx] = <<1, 0>>
    /\ \E g \in GuardKinds :
           g.meta_index = last.idx /\ g.mode = "ReadOnly" /\ guards[g] > 0

\* the guard that this step adds
Adds(g) == guards' = [guards EXCEPT ![g] = @ + 1]

\* C20: a guard returned by get is read-only and one returned by acquire_cpu
\* or get_mut is read-write; the mutable view of a read-only guard fails with
\* ReadOnly and changes nothing, the mutable view of a read-write guard
\* succeeds, and the read view of either succeeds.
C20_ReadOnlyGuard ==
    [][ /\ \A g \in GuardKinds :
              /\ (Returns("get") /\ Adds(g)) => g.mode = "ReadOnly"
              /\ (Returns("get_mut") /\ Adds(g)) => g.mode = "ReadWrite"
              /\ (Returns("acquire_cpu") /\ Adds(g)) => g.mode = "ReadWrite"
        /\ \A i \in Slots :
              /\ (Views("as_cpu_slice_mut", i) /\ last'.msg = "ReadOnly") =>
                    /\ ~last'.ok
                    /\ last'.err = "ReadOnly"
                    /\ UNCHANGED <<hdr, recs, regions, guards, data>>
              /\ (Views("as_cpu_slice_mut", i) /\ last'.msg = "ReadWrite") =>
                    last'.ok
              /\ Views("as_cpu_slice", i) => last'.ok
      ]_vars

\* the mutable view of a guard from get has just been refused, on a buffer
\* that holds written bytes
C20_Witness ==
    /\ last.op = "as_cpu_slice_mut"
    /\ last.msg = "ReadOnly"
    /\ last.err = "ReadOnly"
    /\ data[last.idx] # Zeros
    /\ \E g \in GuardKinds :
           g.meta_index = last.idx /\ g.mode = "ReadOnly" /\ guards[g] > 0

\* the calls of the pool and of the region that take an index
IndexCalls == {"get", "get_mut", "add_ref", "release", "ref_count",
               "set_ref_count", "try_release", "release_buffer", "free"}

\* C23: every call that takes an index, made with an index at or above the
\* capacity, returns BufferNotFound(index) and leaves the header, every
\* record, the data regions and the guards as they were.
C23_OutOfRange ==
    [][\A o \in IndexCalls, i \in OutOfRange :
          Views(o, i) =>
              /\ ~last'.ok
              /\ last'.err = "BufferNotFound"
              /\ last'.val = i
              /\ UNCHANGED <<hdr, recs, regions, guards, data, tvars>> ]_vars

\* try_release(capacity) was refused on a region that holds a buffer
C23_Witness ==
    /\ last.op = "try_release"
    /\ last.idx = Capacity
    /\ last.err = "BufferNotFound"
    /\ allocated > 0
    /\ ref_count[0] = 1

\* C24: when try_release(i) pushes slot i on the free list, ref_count(i) <= 0
\* at the moment of the push: no add_ref or get on i took effect between the
\* read of ref_count and the push. (Stated for a slot that an acquire returned
\* and that is not on the free list.)
C24_PushAtZero ==
    [][\A t \in Threads :
          ( /\ op[t] = "try_release" /\ pc[t] = "f_cas" /\ pc'[t] = "f_dec"
            /\ IsAllocated(arg[t]) ) =>
              ref_count[arg[t]] <= 0 ]_vars

\* C25: after any sequence of pool calls the free list holds each index at
\* most once (so it has no cycle), holds no index at or above next_id, and
\* `allocated` is not below 0.
C25_FreeListSound ==
    /\ \A i \in Slots : Count(FreeList, i) <= 1
    /\ \A k \in 1..Len(FreeList) : FreeList[k] < next_id
    /\ allocated >= 0

\* C26: an acquire_cpu that runs on its own and fails in the creation of its
\* data region leaves next_id, allocated, free_head and the free list as they
\* were when it began.
C26_FailedAcquireRestores ==
    [][ ( /\ Returns("acquire_cpu")
          /\ snap # NoSnap
          /\ ~last'.ok
          /\ last'.msg = "create failed" )
        => /\ <<next_id', allocated', free_head'>> = <<snap[1], snap[2], snap[3]>>
           /\ FreeList' = snap[4] ]_vars

\* C27: a get(i) or get_mut(i) with i below the capacity that runs on its own
\* and fails leaves ref_count(i) at the value it had when the call began.
C27_FailedGetKeepsCount ==
    [][\A i \in Slots :
          ( /\ Returns("get") \/ Returns("get_mut")
            /\ snap # NoSnap
            /\ ~last'.ok
            /\ last'.idx = i )
          => ref_count'[i] = snap[5][i] ]_vars

\* C28: release(i) is one atomic decrement that returns the count it
\* produced, whatever calls of other threads are under way on i; a release
\* call returns 0 exactly when its own decrement takes ref_count(i) from 1 to
\* 0, so each such transition is seen by one release call and no other
\* release call returns 0 for it.
C28_OneReleaserSeesZero ==
    [][\A i \in Slots :
          (Direct("release", i) \/ (Returns("release") /\ last'.idx = i)) =>
              /\ last'.ok
              /\ last'.val = ref_count'[i]
              /\ last'.val = 0 <=> (ref_count[i] = 1 /\ ref_count'[i] = 0) ]_vars

\* a release has returned 0 while a get of another thread is under way on the
\* same index
C28_Witness ==
    /\ last.op = "release"
    /\ last.val = 0
    /\ ref_count[last.idx] = 0
    /\ \E t \in Threads : pc[t] = "g_inc" /\ arg[t] = last.idx

\* C29: alloc reports "full" only if all `capacity` slots were live at some
\* moment of the call. For an alloc that runs on its own (no other call is
\* under way from its start to its return) the live slots are the same at
\* every moment of the call: it reports "full" only if every slot is live.
C29_FullOnlyWhenAllLive ==
    [][\A t \in Threads :
          ( /\ op[t] = "alloc"
            /\ pc[t] = "a_undo" /\ pc'[t] = "idle"
            /\ snap # NoSnap )
          => \A i \in Slots : live[i] >= 1 ]_vars

\* the open of thread t returns in this step
OpenReturns(t) == op[t] = "open" /\ pc[t] # "idle" /\ pc'[t] = "idle"

\* C21: an open returns a SharedMemory error and yields no region when the
\* magic of the header is not MAGIC or its version is not VERSION, and else
\* succeeds with the capacity the header holds; an open that follows a
\* successful create(name, capacity) succeeds and reports that capacity.
C21_OpenValidates ==
    [][\A t \in Threads :
          OpenReturns(t) =>
              /\ IF header.magic = MAGIC /\ header.version = VERSION
                 THEN /\ last'.ok
                      /\ last'.val = header.capacity
                      /\ pools'[t] = header.capacity
                 ELSE /\ ~last'.ok
                      /\ last'.err = "SharedMemory"
                      /\ pools'[t] = NoPool
              /\ (last.op = "create" /\ last.ok) =>
                    (last'.ok /\ last'.val = last.val) ]_vars

\* one process created the region and another one opened it
C21_Witness ==
    /\ last.op = "open"
    /\ last.ok
    /\ last.val = Capacity
    /\ \A t \in Threads : pools[t] = Capacity
    /\ free_head = EMPTY
    /\ allocated > 0

\* C30: an open that succeeds while a create of the same name is under way
\* finds the header fully written: it holds the capacity given to create (not
\* 0) and free_head holds EMPTY (not the 0 of the zero-filled region).
C30_OpenSeesInitialised ==
    [][\A t, u \in Threads :
          (OpenReturns(t) /\ last'.ok /\ op[u] = "create") =>
              /\ loc[u].todo = {}
              /\ last'.val = arg[u]
              /\ last'.val # 0
              /\ free_head = EMPTY ]_vars

\* the slots in use and the number of slots not in use when the running call
\* began
WasInUse(i) == i < snap[1] /\ \A k \in 1..Len(snap[4]) : snap[4][k] # i
WasUnallocated == Capacity - Cardinality({i \in Slots : WasInUse(i)})

\* C22: a preallocate_cpu(size, n) that runs on its own on a pool with at
\* least n slots not in use returns n indices, pairwise distinct, none of them
\* in use when the call began, each with ref_count 1 at the return; on a pool
\* on which nothing was allocated yet the indices are 0..n-1.
C22_PreallocateDistinct ==
    [][\A t \in Threads :
          ( /\ op[t] = "preallocate_cpu"
            /\ pc[t] # "idle" /\ pc'[t] = "idle"
            /\ snap # NoSnap
            /\ arg[t] <= WasUnallocated )
          => /\ last'.ok
             /\ Len(indices'[t]) = arg[t]
             /\ \A j, k \in 1..Len(indices'[t]) :
                    j # k => indices'[t][j] # indices'[t][k]
             /\ \A k \in 1..Len(indices'[t]) :
                    /\ ~WasInUse(indices'[t][k])
                    /\ ref_count'[indices'[t][k]] = 1
             /\ (snap[1] = 0 /\ snap[4] = << >>) =>
                    indices'[t] = [k \in 1..arg[t] |-> k - 1] ]_vars

\* ---- termination of alloc and free -----------------------------------------
\* the compare_exchange_weak of thread t succeeds
CasOk(t) ==
    \/ AllocCas(t) /\ pc'[t] = "a_inc"
    \/ FreeCas(t) /\ pc'[t] = "f_dec"

\* every thread that is in a call goes on, and a compare_exchange_weak that
\* finds the expected value again and again does not fail spuriously forever
FairRegion ==
    \A t \in Threads :
        /\ WF_vars(Alloc(t) \/ Free(t))
        /\ SF_vars(CasOk(t))

SpecLockFree == InitRegion /\ [][NextRegion]_vars /\ FairRegion

\* a thread other than t updates free_head in this step
OtherUpdates(t) ==
    \E u \in Threads \ {t} :
        \/ pc[u] = "a_cas" /\ pc'[u] = "a_inc"
        \/ pc[u] = "f_cas" /\ pc'[u] = "f_dec"

\* C31: an alloc or free call of thread t that is under way returns, unless
\* the other threads go on updating free_head for ever; so when the updates
\* of the others stop, every call that is under way completes.
C31_CallsTerminate ==
    \A t \in Threads :
        (<>[][~OtherUpdates(t)]_vars) => ((pc[t] # "idle") ~> (pc[t] = "idle"))

\* the CAS of an alloc is about to fail on a head that a call of the other
\* thread, which has returned, replaced
C31_Witness ==
    \E t \in Threads :
        /\ op[t] = "alloc"
        /\ pc[t] = "a_cas"
        /\ free_head # loc[t].head
        /\ Quiet(t)

\* alloc calls that have bumped next_id past the capacity and have not yet
\* taken the bump back
Undoing == Cardinality({t \in Threads : pc[t] = "a_undo"})

\* C32 (as stated): in every reachable state, also while several alloc calls
\* on a full pool are in flight, next_id <= capacity.
C32_NextIdAtMostCapacity == next_id <= Capacity

\* C32 (amended): next_id exceeds the capacity by exactly the number of alloc
\* calls that are between their failed fetch_add and the fetch_sub that
\* undoes it, and by nothing else: next_id less those calls is within
\* 0..capacity, so next_id <= capacity whenever no such call is in flight.
C32_OvershootUndone ==
    /\ next_id - Undoing \in 0..Capacity
    /\ Undoing > 0 => next_id - Undoing = Capacity

\* two alloc calls on a full pool have both bumped next_id
C32_Witness ==
    /\ Undoing = NumThreads
    /\ next_id = Capacity + NumThreads
    /\ free_head = EMPTY

\* C33: whenever no alloc or free call is in progress (free being called on
\* live indices only), allocated = next_id - (length of the free list) =
\* number of live indices, and next_id <= capacity.
C33_QuiescentCounts ==
    AllIdle =>
        /\ allocated = next_id - Len(FreeList)
        /\ allocated = Cardinality({i \in Slots : live[i] >= 1})
        /\ next_id <= Capacity

\* threads in the retry loop of acquire_cpu_blocking after an attempt that
\* failed on a full pool
Blocked ==
    Cardinality({t \in Threads :
        op[t] = "acquire_cpu_blocking" /\ pc[t] \in {"b_check", "b_sleep"}})

\* C34: in every reachable state the header field waiters is the number of
\* threads that are blocked in the retry loop of acquire_cpu_blocking on a
\* full pool.
C34_WaitersCountsBlocked == header.waiters = Blocked

\* ---- the pool object and the guards made through it ------------------------
\* drop(pool) of a pool that was opened: MetaRegion and its SharedMemory go,
\* the metadata region is unmapped in this process (the name stays)
DropPool(t) ==
    /\ pc[t] = "idle"
    /\ pools[t] # NoPool
    /\ pools' = [pools EXCEPT ![t] = NoPool]
    /\ last' = [op |-> "drop_pool", idx |-> 0, ok |-> TRUE, val |-> 0,
                err |-> "none", msg |-> "none"]
    /\ hist' = Observe(hist, Event("drop_pool", 0, TRUE, 0))
    /\ snap' = NoSnap
    /\ UNCHANGED <<tvars, late, header, meta_exists, indices, wrappers>>
    /\ UNCHANGED <<hdr, recs, Others, live>>

\* drop(guard) after drop(pool): release dereferences ref_count, a pointer
\* into the mapping that is gone. The fetch_sub reaches the record when the
\* address is still backed by the region, and does not when it is not.
DropDangling(t, g) ==
    /\ guards[g] > 0
    /\ pools[t] = NoPool
    /\ Atomic(t, "drop", g.meta_index, TRUE, 0, "none", "none")
    /\ \E reached \in BOOLEAN :
         ref_count' = IF reached
                      THEN [ref_count EXCEPT ![g.meta_index] = @ - 1]
                      ELSE ref_count
    /\ DropData(g)
    /\ guards' = [guards EXCEPT ![g] = @ - 1]
    /\ UNCHANGED <<hdr, next_free, meta, owner_unlinks, data, live>>

\* the process that opens the pool, makes guards and drops both; the other
\* process keeps its pool and releases slots
Client == CHOOSE t \in Threads : TRUE

NextLife ==
    \E t \in Threads :
        \/ t = Client /\ pools[t] # NoPool /\ CallAcquireCpu(t)
        \/ t = Client /\ pools[t] # NoPool /\ CallGet(t, "get", 0)
        \/ t = Client /\ DropPool(t)
        \/ t = Client /\ NumGuards = 0 /\ CallOpen(t)
        \/ t = Client /\ pools[t] # NoPool /\ \E g \in GuardKinds : Drop(t, g)
        \/ t = Client /\ \E g \in GuardKinds : DropDangling(t, g)
        \/ t # Client /\ CallTryRelease(t, 0)
        \/ Open(t)
        \/ Step(t)

SpecLife == Init /\ [][NextLife]_vars

\* C35: the metadata mapping that the ref_count pointer of a guard refers to
\* outlives the guard: no guard is dropped (and decrements through its
\* pointer) after the pool object it was made through has been dropped.
C35_MappingOutlivesGuard ==
    [][\A g \in GuardKinds : Ends(g, "drop") => pools[Client] # NoPool]_vars

\* C36: acquire_cpu_blocking waits and retries on the "full" error only: an
\* attempt that fails in the creation of its data region (or on an index
\* outside the region) ends the call at once with that error; the deadline
\* check is reached only from the "full" error of alloc, and a new attempt
\* starts only after the sleep that follows a deadline check.
C36_OnlyFullRetries ==
    [][\A t \in Threads :
          op[t] = "acquire_cpu_blocking" =>
              /\ ( /\ pc[t] = "c_create"
                   /\ pc'[t] # pc[t]
                   /\ loc[t].meta_index \in regions )
                 => /\ pc'[t] = "idle"
                    /\ ~last'.ok
                    /\ last'.err = "SharedMemory"
                    /\ ~ContainsFull(last'.msg)
              /\ (pc[t] = "a_next" /\ pc'[t] = "idle") =>
                    (~last'.ok /\ last'.err = "BufferNotFound")
              /\ (pc'[t] = "b_check" /\ pc[t] # "b_check") => pc[t] = "a_undo"
              /\ (pc'[t] = "b_sleep" /\ pc[t] # "b_sleep") => pc[t] = "b_check"
              /\ (pc'[t] = "a_load" /\ pc[t] # "a_load") =>
                    pc[t] \in {"b_sleep", "a_cas"} ]_vars

\* a blocking call has ended with the error of a failed region creation,
\* before its deadline
C36_Witness ==
    /\ last.op = "acquire_cpu_blocking"
    /\ ~last.ok
    /\ last.msg = "create failed"
    /\ last.idx > 0

\* C37: an acquire_cpu(size) that succeeds with index i leaves record i with
\* id = i, ref_count = 1, storage_type = 0 (Cpu), device_id = 0 and
\* size = size, whatever the record held before (a recycled slot keeps the
\* values of its last use until then), and returns one new guard, read-write,
\* with meta_index i, that owns its data region.
C37_AcquireWritesRecord ==
    [][ (Returns("acquire_cpu") /\ last'.ok) =>
          LET i == last'.val IN
              /\ i \in Slots
              /\ meta'[i] = [id |-> i, storage_type |-> 0, device_id |-> 0,
                             size |-> SizeArg]
              /\ ref_count'[i] = 1
              /\ Adds([meta_index |-> i, mode |-> "ReadWrite", owner |-> TRUE]) ]_vars

\* acquire_cpu has returned slot 0 for the second time: the slot was pushed
\* on the free list and popped again
C37_Witness ==
    /\ last.op = "acquire_cpu"
    /\ last.ok
    /\ last.val = 0
    /\ next_free[0] = EMPTY
    /\ free_head = EMPTY
    /\ ref_count[0] = 1
    /\ meta[0].size = SizeArg
    /\ guards[[meta_index |-> 0, mode |-> "ReadWrite", owner |-> TRUE]] = 1

\* ---- a process that exits, and a process that opens the pool ---------------
\* the guards of slot i
GuardsOf(i) == SumGuards({g \in GuardKinds : g.meta_index = i})

\* variant: the exit of a process drops its guards
ExitDropping(t) ==
    /\ pc[t] = "idle"
    /\ pools[t] # NoPool
    /\ pools' = [pools EXCEPT ![t] = NoPool]
    /\ guards' = [g \in GuardKinds |-> 0]
    /\ ref_count' = [i \in Slots |-> ref_count[i] - GuardsOf(i)]
    /\ last' = [op |-> "exit", idx |-> 0, ok |-> TRUE, val |-> 0,
                err |-> "none", msg |-> "none"]
    /\ hist' = Observe(hist, Event("exit", 0, TRUE, 0))
    /\ snap' = NoSnap
    /\ UNCHANGED <<tvars, late, header, meta_exists, indices, wrappers>>
    /\ UNCHANGED <<hdr, next_free, meta, regions, owner_unlinks, data, live>>

\* std::process::exit(0): no destructor runs; the pool and the guards of the
\* process go with its address space, the regions and their names stay
Exit(t) ==
    /\ pc[t] = "idle"
    /\ pools[t] # NoPool
    /\ pools' = [pools EXCEPT ![t] = NoPool]
    /\ guards' = [g \in GuardKinds |-> 0]
    /\ last' = [op |-> "exit", idx |-> 0, ok |-> TRUE, val |-> 0,
                err |-> "none", msg |-> "none"]
    /\ hist' = Observe(hist, Event("exit", 0, TRUE, 0))
    /\ snap' = NoSnap
    /\ UNCHANGED <<tvars, late, header, meta_exists, indices, wrappers>>
    /\ UNCHANGED <<hdr, recs, regions, owner_unlinks, data, live>>

\* the process that holds the guards acquires, drops and exits, and a process
\* started after it opens the pool by name; every process that holds the pool
\* sets, reads and adds to the counts; one call at a time
NextCross ==
    \E t \in Threads :
        /\ Quiet(t)
        /\ \/ t = Client /\ pools[t] # NoPool /\ CallAcquireCpu(t)
           \/ t = Client /\ pools[t] # NoPool /\ \E g \in GuardKinds : Drop(t, g)
           \/ t = Client /\ Exit(t)
           \/ pools[t] # NoPool /\ SetRefCount(t, 0, 2)
           \/ pools[t] # NoPool /\ \E i \in Slots : RefCount(t, i)
           \/ pools[t] # NoPool /\ \E i \in Slots : AddRef(t, i)
           \/ CallOpen(t)
           \/ Open(t)
           \/ AllocFresh(t)
           \/ AcquireCpu(t)

SpecCross == Init /\ [][NextCross]_vars

\* a step of an open call, or the exit of a process
Opening == \E t \in Threads : op[t] = "open" \/ op'[t] = "open"
Exiting == last'.op = "exit" /\ last' # last

RECURSIVE SumWrappers(_)
SumWrappers(S) ==
    IF S = {} THEN 0
    ELSE LET w == CHOOSE x \in S : TRUE IN wrappers[w] + SumWrappers(S \ {w})

NumWrappers == SumWrappers(PyKinds)

NewWrapper(i, m) ==
    wrappers' = [wrappers EXCEPT ![[meta_index |-> i, mode |-> m]] = @ + 1]

\* BufferPool.acquire_cpu(size): self.inner.acquire_cpu(size)? comes first
CallPyAcquireCpu(t) ==
    /\ allocated <= Capacity
    /\ NumWrappers < MaxHandles
    /\ Begin(t, "py_acquire_cpu", 0, "a_load")
    /\ UNCHANGED <<hdr, recs, Others, loc, live>>

\* guard.forget() (the SharedMemory of the creating guard is dropped), then
\* Ok(BufferGuard { pool, meta_index, mode: ReadWrite, forgotten: false })
PyAcquireForget(t) ==
    /\ pc[t] = "y_forget"
    /\ regions' = IF owner_unlinks THEN regions \ {loc[t].meta_index} ELSE regions
    /\ NewWrapper(loc[t].meta_index, "ReadWrite")
    /\ Leave(t, TRUE, loc[t].meta_index, "none", "none")
    /\ UNCHANGED <<hdr, recs, owner_unlinks, guards, data, live, header,
                   meta_exists, pools, indices>>

\* BufferPool.get(meta_index) / get_mut(meta_index): self.inner.add_ref(..)?,
\* then Ok(BufferGuard { .., mode, forgotten: false })
PyGet(t, i, m) ==
    /\ pc[t] = "idle"
    /\ NumWrappers < MaxHandles
    /\ ref_count[i] < MaxRef
    /\ last' = [op |-> "py_get", idx |-> i, ok |-> TRUE, val |-> 0,
                err |-> "none", msg |-> m]
    /\ hist' = Observe(hist, Event("py_get", i, TRUE, 0))
    /\ snap' = NoSnap
    /\ ref_count' = [ref_count EXCEPT ![i] = @ + 1]
    /\ NewWrapper(i, m)
    /\ UNCHANGED <<tvars, late, header, meta_exists, pools, indices>>
    /\ UNCHANGED <<hdr, next_free, meta, Others, live>>

\* cpu_ptr, cpu_ptr_mut, size of a wrapper that is not forgotten:
\* cpu_ptr_mut refuses a read-only wrapper, and else each does
\* self.pool.get(meta_index)? (get_mut for cpu_ptr_mut)
CallPyAccessor(t, o, w) ==
    /\ pc[t] = "idle"
    /\ wrappers[w] > 0
    /\ IF o = "py_cpu_ptr_mut" /\ w.mode = "ReadOnly"
       THEN Atomic(t, o, w.meta_index, FALSE, 0, "Runtime", "buffer is read-only")
       ELSE /\ ref_count[w.meta_index] < MaxRef
            /\ Begin(t, o, w.meta_index, "g_inc")
            /\ UNCHANGED loc
    /\ UNCHANGED <<hdr, recs, Others, live>>

\* a wrapper ends: the call o is __exit__ or the drop of the object, both do
\* self.pool.release(meta_index) when forgotten is false
PyRelease(t, o, w) ==
    /\ pc[t] = "idle"
    /\ wrappers[w] > 0
    /\ ref_count[w.meta_index] > 0 - MaxNeg
    /\ last' = [op |-> o, idx |-> w.meta_index, ok |-> TRUE, val |-> 0,
                err |-> "none", msg |-> w.mode]
    /\ hist' = Observe(hist, Event(o, w.meta_index, TRUE, 0))
    /\ snap' = NoSnap
    /\ ref_count' = [ref_count EXCEPT ![w.meta_index] = @ - 1]
    /\ wrappers' = [wrappers EXCEPT ![w] = @ - 1]
    /\ UNCHANGED <<tvars, late, header, meta_exists, pools, indices>>
    /\ UNCHANGED <<hdr, next_free, meta, Others, live>>

\* BufferGuard.forget(): forgotten = true
PyForget(t, w) ==
    /\ pc[t] = "idle"
    /\ wrappers[w] > 0
    /\ last' = [op |-> "py_forget", idx |-> w.meta_index, ok |-> TRUE, val |-> 0,
                err |-> "none", msg |-> w.mode]
    /\ hist' = Observe(hist, Event("py_forget", w.meta_index, TRUE, 0))
    /\ snap' = NoSnap
    /\ wrappers' = [wrappers EXCEPT ![w] = @ - 1]
    /\ UNCHANGED <<tvars, late, header, meta_exists, pools, indices>>
    /\ UNCHANGED <<hdr, recs, Others, live>>

\* the calls of the Python classes, one call at a time
NextPython ==
    \E t \in Threads :
        /\ Quiet(t)
        /\ \/ CallPyAcquireCpu(t)
           \/ \E i \in Slots, m \in {"ReadOnly", "ReadWrite"} : PyGet(t, i, m)
           \/ \E o \in PyAccessors, w \in PyKinds : CallPyAccessor(t, o, w)
           \/ \E w \in PyKinds : PyRelease(t, "py_exit", w)
           \/ \E w \in PyKinds : PyRelease(t, "py_drop", w)
           \/ \E w \in PyKinds : PyForget(t, w)
           \/ AllocFresh(t)
           \/ AcquireCpu(t)
           \/ PyAcquireForget(t)
           \/ Get(t)

SpecPython == Init /\ [][NextPython]_vars

\* a getter of a wrapper returns in this step
PyAccessorReturns ==
    \/ \E o \in PyAccessors : Returns(o)
    \/ last'.op \in PyAccessors /\ last' # last /\ pc' = pc

\* C39: a read of cpu_ptr, cpu_ptr_mut or size of a Python BufferGuard leaves
\* every ref_count as it was when the read began; and the wrapper holds one
\* reference: get/get_mut add 1 when they make it, __exit__ or drop take 1
\* when they end it, so that ref_count is then back at its value before the
\* wrapper was made, whatever was read in between.
C39_AccessorsKeepCount ==
    [][ /\ (PyAccessorReturns /\ snap # NoSnap) => ref_count' = snap[5]
        /\ (PyAccessorReturns /\ pc' = pc) => UNCHANGED ref_count
        /\ \A i \in Slots :
              /\ (last'.op = "py_get" /\ last'.idx = i /\ last' # last) =>
                    ref_count'[i] = ref_count[i] + 1
              /\ (last'.op \in {"py_exit", "py_drop"} /\ last'.idx = i
                    /\ wrappers' # wrappers) =>
                    ref_count'[i] = ref_count[i] - 1 ]_vars

\* C40: a preallocate_cpu(size, n) that runs on its own and returns an error
\* leaves the pool as it found it: `allocated` is as when the call began, and
\* no slot that was not in use then is in use now (acquired by an earlier turn
\* of the loop, with an index that the caller never sees).
C40_PreallocateAllOrNothing ==
    [][\A t \in Threads :
          ( /\ op[t] = "preallocate_cpu"
            /\ pc[t] # "idle" /\ pc'[t] = "idle"
            /\ snap # NoSnap
            /\ ~last'.ok )
          => /\ allocated' = snap[2]
             /\ indices'[t] = << >>
             /\ \A i \in Slots : ~WasInUse(i) => ~InUse(i)' ]_vars

====
